---- MODULE Spec2Model ----
(***************************************************************************)
(* The two command-line tools of plandek-api-scripts as one state machine. *)
(*                                                                         *)
(*   metrics tool     process_test_metrics.py: parse a test report, build  *)
(*                    seven datapoints, and for each one get-or-create its *)
(*                    timeseries and append the datapoint.                 *)
(*   deployment tool  send_deployment.py: build a deployment body from the *)
(*                    CLI flags and POST it.                               *)
(*                                                                         *)
(* Text (exception messages, printed lines) is a sequence of fragments, so *)
(* that Python's substring test `"Not Found" in str(e)` is a search for    *)
(* the fragment "Not Found".  Python's None is the string "None".          *)
(***************************************************************************)
EXTENDS Integers, Sequences, FiniteSets, TLC

VARIABLES
    tool,            \* "metrics" or "deploy": which script this process runs
    pc,              \* position of the process in its main()
    run,             \* number of the process run (the remote store outlives a run)
    test_results,    \* metrics tool: the positional JSON argument
    args,            \* the parsed command line
    env,             \* the credential found in the environment
    metrics,         \* send_test_metrics: the parsed metrics (datapoints)
    api,             \* the credential of the constructed client, None before construction
    i,               \* send_test_metrics: index of the datapoint being sent
    results,         \* send_test_metrics: results map, name -> status text
    result,          \* what send_test_metrics returned to main
    timeseries_id,   \* add_datapoints: the id read from ensure's return value
    deployment_data, \* deployment tool: the request body
    exit_code,       \* -1 while running, else the process exit code
    stdout,          \* what main printed to standard output
    stderr,          \* what main printed to standard error
    uncaught,        \* an exception left main uncaught (interpreter traceback)
    store,           \* remote API: timeseries name -> id
    next_id,         \* remote API: next id to assign
    faults,          \* number of non-nominal responses the remote side has given
    inv,             \* history of the current add_datapoints invocation
    last,            \* history of the last client send (_make_request/send_deployment)
    calls,           \* history: per name, the ensure_timeseries_exists calls made
    n_requests,      \* history: HTTP requests issued in this run
    attempted        \* history: datapoint indices whose send was attempted

vars == <<tool, pc, run, test_results, args, env, metrics, api, i, results, result,
          timeseries_id, deployment_data, exit_code, stdout, stderr, uncaught,
          store, next_id, faults, inv, last, calls, n_requests, attempted>>

----------------------------------------------------------------------------
(* Bounds of the model *)

\* counts of a generated test report range over 0..MaxCount
MaxCount == 3
\* non-nominal responses (401, 5xx, transport failures, ...) over a behaviour
MaxFaults == 1
\* runs of the metrics tool against the same remote store
MaxRuns == 2

----------------------------------------------------------------------------
(* Python values *)

None == "None"

\* truth value of an optional string: None and "" are falsy
Truthy(s) == s \notin {None, ""}

\* a or b
Or(a, b) == IF Truthy(a) THEN a ELSE b

\* d.get(k, default) on a mapping
Get(d, k, default) == IF k \in DOMAIN d THEN d[k] ELSE default

\* sub in s, for s a text and sub one fragment
Contains(s, sub) == \E k \in DOMAIN s : s[k] = sub

NoExc == [type |-> "None", msg |-> <<>>]

Exc(t, m) == [type |-> t, msg |-> m]

----------------------------------------------------------------------------
(* What the remote side can answer to one HTTP request *)

JsonBody(message, id) == [fmt |-> "json", message |-> message, id |-> id]

TextBody(text) == [fmt |-> "text", message |-> text, id |-> 0]

EmptyBody == [fmt |-> "empty", message |-> <<>>, id |-> 0]

Http(status, reason, body) ==
    [kind |-> "http", status |-> status, reason |-> reason, body |-> body, text |-> <<>>]

Transport(type, text) ==
    [kind |-> "transport", status |-> 0, reason |-> type, body |-> EmptyBody, text |-> text]

\* responses a remote side in trouble gives, whatever the request
FaultOutcomes ==
    { Http(401, "Unauthorized", EmptyBody),
      Http(500, "Internal Server Error", JsonBody(<<"Upstream ", "Not Found">>, 0)),
      Http(500, "Internal Server Error", TextBody(<<"oops">>)),
      Http(404, "NOT FOUND", JsonBody(<<>>, 0)),
      Http(200, "OK", EmptyBody),
      Transport("ConnectionError", <<"Connection refused">>),
      Transport("ProxyError", <<"Tunnel connection failed: 404 ", "Not Found">>) }

\* GET /timeseries_by_name/{name} on a store that keeps timeseries by name
ServerLookup(name) ==
    IF name \in DOMAIN store
    THEN Http(200, "OK", JsonBody(<<>>, store[name]))
    ELSE Http(404, "Not Found", JsonBody(<<"no such timeseries">>, 0))

\* POST /timeseries {"name": name}
ServerCreate(name) ==
    IF name \in DOMAIN store
    THEN Http(409, "Conflict", JsonBody(<<"timeseries exists">>, 0))
    ELSE Http(200, "OK", JsonBody(<<>>, next_id))

\* POST /timeseries/{id}/datapoints
ServerAppend(id) ==
    IF \E n \in DOMAIN store : store[n] = id
    THEN Http(200, "OK", EmptyBody)
    ELSE Http(404, "Not Found", JsonBody(<<"no such timeseries">>, 0))

\* the answers one request can get: the nominal one, or a fault while the bound lasts
Answers(nominal) ==
    {nominal} \cup (IF faults < MaxFaults THEN FaultOutcomes ELSE {})

----------------------------------------------------------------------------
(* The metrics tool's client: TimeseriesAPI *)

BaseUrl == "https://api.plandek.com/timeseries/v1"

AuthFailedKey == <<"Authentication failed. Please check your API key.">>

\* response.raise_for_status(): raises for 4xx and 5xx
RaisesForStatus(status) == status >= 400 /\ status < 600

\* str() of the HTTPError raise_for_status raises
HTTPErrorMsg(o, url) ==
    <<ToString(o.status),
      IF o.status < 500 THEN " Client Error: " ELSE " Server Error: ",
      o.reason, " for url: ">> \o url

Raise(e) == [exc |-> e, json |-> [timeseries_id |-> 0]]

Return(id) == [exc |-> NoExc, json |-> [timeseries_id |-> id]]

\* faulty variant of IsAuthFailure: the wrong status code is tested
IsAuthFailure403(o) == o.status = 403

\* the 401 check of _make_request: raised inside the try, but no RequestException,
\* so it leaves _make_request as it is
IsAuthFailure(o) == o.status = 401

\* _make_request, given the answer o that session.request got.  A body of a 2xx
\* answer that is no JSON makes response.json() raise requests' JSONDecodeError,
\* a RequestException without a response.
MakeRequest(o, endpoint) ==
    LET url == <<BaseUrl>> \o endpoint
        wrap(m) == Raise(Exc("TimeseriesAPIError", <<"API request failed: ">> \o m))
    IN  IF o.kind = "transport" THEN wrap(o.text)
        ELSE IF IsAuthFailure(o) THEN Raise(Exc("TimeseriesAPIError", AuthFailedKey))
        ELSE IF RaisesForStatus(o.status) THEN
            wrap(HTTPErrorMsg(o, url) \o <<": ">> \o
                 (IF o.body.fmt = "json"
                  THEN (IF o.body.message # <<>> THEN o.body.message
                        ELSE <<"No error details">>)
                  ELSE o.body.message))
        ELSE IF o.body.fmt = "text" THEN wrap(<<"Expecting value">>)
        ELSE IF o.body.fmt = "empty" THEN Return(0)
        ELSE Return(o.body.id)

\* faulty variant of LookupSaysAbsent: the wrong spelling is searched for
LookupSaysAbsentLower(e) == e.type = "TimeseriesAPIError" /\ Contains(e.msg, "not found")

\* ensure_timeseries_exists: the test that sends a failed lookup on to the create call
LookupSaysAbsent(e) == e.type = "TimeseriesAPIError" /\ Contains(e.msg, "Not Found")

\* faulty variant of TimeseriesAPIInit: the check of the key is left out
TimeseriesAPIInitUnchecked(api_key, env_key) ==
    [exc |-> NoExc, api_key |-> Or(api_key, env_key)]

\* TimeseriesAPI.__init__: the client, or the ValueError for a missing key
TimeseriesAPIInit(api_key, env_key) ==
    LET k == Or(api_key, env_key) IN
    IF ~Truthy(k)
    THEN [exc |-> Exc("ValueError", <<"TIMESERIES_API_KEY environment variable is required">>),
          api_key |-> k]
    ELSE [exc |-> NoExc, api_key |-> k]

----------------------------------------------------------------------------
(* parse_test_results *)

\* the number of bits of the significand of a Python float (binary64)
Precision == 53

\* a Python int
PyInt(n) == [type |-> "int", n |-> n, m |-> <<>>, e |-> 0]

\* a Python float: the significand m, Precision bits from the most significant one
\* (the first is 1), times 2^e; the significand of 0.0 is <<>>
PyFloat(m, e) == [type |-> "float", n |-> 0, m |-> m, e |-> e]

\* the marker of a raised ZeroDivisionError
ZeroDivision == [type |-> "ZeroDivisionError", n |-> 0, m |-> <<>>, e |-> 0]

\* binary numerals are sequences of bits from the most significant one, cut into
\* limbs of LimbBits bits wherever they are computed with
LimbBits == 20

Limb == 2 ^ LimbBits

\* the number of bits of a natural n < 2^30
BitLen(n) == CHOOSE k \in 0..30 : n < 2 ^ k /\ (k = 0 \/ n >= 2 ^ (k - 1))

\* the natural d < 2^w as a numeral of w bits
BitsW(d, w) == [j \in 1..w |-> (d \div (2 ^ (w - j))) % 2]

\* a natural n < 2^30 in binary, without leading zeros; 0 is <<>>
Bits(n) == BitsW(n, BitLen(n))

RECURSIVE Val(_)
\* the natural a numeral of at most 30 bits stands for
Val(b) == IF b = <<>> THEN 0 ELSE 2 * Val(SubSeq(b, 1, Len(b) - 1)) + b[Len(b)]

\* limb k of a numeral, counted from the least significant limb
LimbOf(b, k) ==
    LET hi == Len(b) - LimbBits * (k - 1)
        lo == hi - LimbBits + 1
    IN  IF hi < 1 THEN 0 ELSE Val(SubSeq(b, IF lo < 1 THEN 1 ELSE lo, hi))

\* a numeral without its leading zeros
Strip(b) ==
    IF \A j \in 1..Len(b) : b[j] = 0 THEN <<>>
    ELSE LET first == CHOOSE j \in 1..Len(b) : b[j] = 1 /\ \A k \in 1..(j - 1) : b[k] = 0
         IN  SubSeq(b, first, Len(b))

\* the numeral of four limbs, l4 the most significant
FromLimbs(l4, l3, l2, l1) ==
    Strip(BitsW(l4, LimbBits) \o BitsW(l3, LimbBits) \o BitsW(l2, LimbBits) \o BitsW(l1, LimbBits))

\* b + 1 on numerals
Inc(b) ==
    IF \A j \in 1..Len(b) : b[j] = 1 THEN <<1>> \o [j \in 1..Len(b) |-> 0]
    ELSE LET z == CHOOSE j \in 1..Len(b) : b[j] = 0 /\ \A k \in (j + 1)..Len(b) : b[k] = 1
         IN  [j \in 1..Len(b) |-> IF j < z THEN b[j] ELSE IF j = z THEN 1 ELSE 0]

\* b * k on numerals, for b of at most 60 bits and a natural k < 2^10
MulSmall(b, k) ==
    LET p1 == LimbOf(b, 1) * k
        p2 == LimbOf(b, 2) * k + p1 \div Limb
        p3 == LimbOf(b, 3) * k + p2 \div Limb
    IN  FromLimbs(p3 \div Limb, p3 % Limb, p2 % Limb, p1 % Limb)

\* round-half-to-even of a numeral of at least Precision bits to Precision bits;
\* sticky: the exact value has non-zero bits beyond b.  shift: the bits dropped.
RoundHalfEven(b, sticky) ==
    LET drop  == Len(b) - Precision
        kept  == SubSeq(b, 1, Precision)
        guard == IF drop > 0 THEN b[Precision + 1] ELSE 0
        rest  == sticky \/ \E j \in (Precision + 2)..Len(b) : b[j] = 1
        up    == guard = 1 /\ (rest \/ kept[Precision] = 1)
        r     == IF up THEN Inc(kept) ELSE kept
    IN  IF Len(r) > Precision
        THEN [m |-> SubSeq(r, 1, Precision), shift |-> drop + 1]
        ELSE [m |-> r, shift |-> drop]

\* a / b on Python ints (naturals here, a < 2^30, b < 2^10): the correctly rounded
\* float, by long division to four limbs after the binary point
TrueDiv(a, b) ==
    IF b = 0 THEN ZeroDivision
    ELSE IF a = 0 THEN PyFloat(<<>>, 0)
    ELSE LET r0 == a % b
             r1 == (r0 * Limb) % b
             r2 == (r1 * Limb) % b
             r3 == (r2 * Limb) % b
             r4 == (r3 * Limb) % b
             q  == Strip(Bits(a \div b) \o BitsW((r0 * Limb) \div b, LimbBits)
                         \o BitsW((r1 * Limb) \div b, LimbBits)
                         \o BitsW((r2 * Limb) \div b, LimbBits)
                         \o BitsW((r3 * Limb) \div b, LimbBits))
             rd == RoundHalfEven(q, r4 # 0)
         IN  PyFloat(rd.m, rd.shift - 4 * LimbBits)

\* x * k for a float x and a natural k < 2^10: the exact product, rounded
FloatTimes(x, k) ==
    IF x.type # "float" \/ x.m = <<>> THEN x
    ELSE LET rd == RoundHalfEven(MulSmall(x.m, k), FALSE)
         IN  PyFloat(rd.m, x.e + rd.shift)

\* success_rate = (passed / total * 100) if total > 0 else 0
SuccessRate(passed, total) ==
    IF total > 0 THEN FloatTimes(TrueDiv(passed, total), 100) ELSE PyInt(0)

\* datapoint names, without the "{repo}." prefix
MetricNames ==
    <<"tests.total", "tests.passed", "tests.failed", "tests.skipped",
      "tests.success_rate", "tests.duration_seconds", "workflow">>

NumDatapoints == Len(MetricNames)

Datapoint(name, value) == [name |-> name, value |-> value]

\* the datapoints list of parse_test_results, for a parsed JSON object
Datapoints(test_data) ==
    LET total   == Get(test_data, "tests", 0)
        passed  == Get(test_data, "passed", 0)
        failed  == Get(test_data, "failed", 0)
        skipped == Get(test_data, "skipped", 0)
        duration == Get(test_data, "duration", 0)
    IN  << Datapoint(MetricNames[1], PyInt(total)),
           Datapoint(MetricNames[2], PyInt(passed)),
           Datapoint(MetricNames[3], PyInt(failed)),
           Datapoint(MetricNames[4], PyInt(skipped)),
           Datapoint(MetricNames[5], SuccessRate(passed, total)),
           Datapoint(MetricNames[6], PyInt(duration)),
           Datapoint(MetricNames[7], PyInt(1)) >>

\* parse_test_results: the metrics, or the exception that leaves it
ParseResult(tr) ==
    IF tr.kind = "invalid"
    THEN [exc |-> Exc("ValueError", <<"Invalid test results format: ", "Expecting value">>),
          datapoints |-> <<>>]
    ELSE IF tr.kind = "array"
    THEN [exc |-> Exc("AttributeError", <<"'list' object has no attribute 'get'">>),
          datapoints |-> <<>>]
    ELSE IF SuccessRate(Get(tr.data, "passed", 0), Get(tr.data, "tests", 0)) = ZeroDivision
    THEN [exc |-> Exc("ZeroDivisionError", <<"division by zero">>), datapoints |-> <<>>]
    ELSE [exc |-> NoExc, datapoints |-> Datapoints(tr.data)]

----------------------------------------------------------------------------
(* History records *)

NoOutcome == Http(0, "", EmptyBody)

\* an add_datapoints invocation that has issued nothing yet
FreshInv ==
    [n_lookup |-> 0, n_create |-> 0, n_append |-> 0, faulty |-> FALSE, existed |-> FALSE,
     lookup |-> NoOutcome, lookup_exc |-> NoExc, create_exc |-> NoExc,
     ensured |-> 0, append_id |-> 0, raised |-> NoExc]

NoSend == [outcome |-> NoOutcome, raised |-> NoExc, sent |-> 0]

Sent(o, e) == [outcome |-> o, raised |-> e, sent |-> 1]

NoResult == [returned |-> FALSE, success |-> FALSE, error |-> <<>>, results |-> <<>>]

\* the dict send_test_metrics returns from its except branch
Failure(e) == [returned |-> TRUE, success |-> FALSE, error |-> e.msg, results |-> <<>>]

\* the dict send_test_metrics returns after the loop
Success(res) == [returned |-> TRUE, success |-> TRUE, error |-> <<>>, results |-> res]

\* d[k] = v on a mapping
Put(d, k, v) == [x \in DOMAIN d \cup {k} |-> IF x = k THEN v ELSE d[x]]

Name(k) == metrics[k].name

----------------------------------------------------------------------------
(* send_test_metrics and what it calls *)

\* the except clause around api.add_datapoints in the loop
Caught(e) == e.type = "TimeseriesAPIError"

\* add_datapoints has ended, normally (NoExc) or with exception e: what the loop of
\* send_test_metrics, or its outer except, makes of it
AddEnds(e) ==
    IF e = NoExc \/ Caught(e)
    THEN [pc |-> "loop", i |-> i + 1, result |-> result,
          results |-> Put(results, Name(i),
                          IF e = NoExc THEN <<"success">> ELSE <<"error: ">> \o e.msg)]
    ELSE [pc |-> "returned", i |-> i, result |-> Failure(e), results |-> results]

\* timeseries["timeseries_id"] on what ensure_timeseries_exists returned
TimeseriesId(json) == json.timeseries_id

\* faulty variant of EnsureEnds: a failure of ensure_timeseries_exists is swallowed
\* and add_datapoints goes on to the append
EnsureEndsSwallowed(r) ==
    [pc |-> "append", i |-> i, result |-> result, results |-> results]

\* ensure_timeseries_exists has ended with r (a return value or an exception):
\* add_datapoints reads the id and goes on to the append, or ends
EnsureEnds(r) ==
    IF r.exc # NoExc THEN AddEnds(r.exc)
    ELSE IF TimeseriesId(r.json) = 0 THEN AddEnds(Exc("KeyError", <<"'timeseries_id'">>))
    ELSE [pc |-> "append", i |-> i, result |-> result, results |-> results]

\* the exception that leaves add_datapoints when ensure_timeseries_exists ends with r
EnsureRaises(r) ==
    IF r.exc # NoExc THEN r.exc
    ELSE IF TimeseriesId(r.json) = 0 THEN Exc("KeyError", <<"'timeseries_id'">>)
    ELSE NoExc

\* faulty variant of AfterLookup: a lookup that failed otherwise is sent again
AfterLookupRetry(e) == IF LookupSaysAbsent(e) THEN "create" ELSE "lookup"

\* where a failed lookup leads: on to the create call, or out with the error raised
\* again ("raise"); the code never goes back to "lookup"
AfterLookup(e) == IF LookupSaysAbsent(e) THEN "create" ELSE "raise"

LogCall(name, rec) ==
    [calls EXCEPT ![name] = Append(@, [faulty |-> rec.faulty, existed |-> rec.existed,
                                       creates |-> rec.n_create, ret |-> rec.ensured])]

\* lines 192-195: parse the report
ParseTestResults ==
    /\ tool = "metrics" /\ pc = "start"
    /\ LET r == ParseResult(test_results) IN
         IF r.exc = NoExc
         THEN /\ metrics' = r.datapoints
              /\ pc' = "init_client"
              /\ result' = result
         ELSE /\ result' = Failure(r.exc)
              /\ pc' = "returned"
              /\ metrics' = metrics
    /\ UNCHANGED <<tool, run, test_results, args, env, api, i, results, timeseries_id,
                   deployment_data, exit_code, stdout, stderr, uncaught, store, next_id,
                   faults, inv, last, calls, n_requests, attempted>>

\* line 198: construct the client
InitClient ==
    /\ tool = "metrics" /\ pc = "init_client"
    /\ LET c == TimeseriesAPIInit(args.api_key, env) IN
         IF c.exc = NoExc
         THEN /\ api' = c.api_key
              /\ pc' = "loop"
              /\ result' = result
         ELSE /\ result' = Failure(c.exc)
              /\ pc' = "returned"
              /\ api' = api
    /\ UNCHANGED <<tool, run, test_results, args, env, metrics, i, results, timeseries_id,
                   deployment_data, exit_code, stdout, stderr, uncaught, store, next_id,
                   faults, inv, last, calls, n_requests, attempted>>

\* lines 202-210: the loop takes the next datapoint and calls api.add_datapoints
AddDatapoints ==
    /\ tool = "metrics" /\ pc = "loop" /\ i <= Len(metrics)
    /\ attempted' = attempted \cup {i}
    /\ inv' = FreshInv
    /\ pc' = "lookup"
    /\ UNCHANGED <<tool, run, test_results, args, env, metrics, api, i, results, result,
                   timeseries_id, deployment_data, exit_code, stdout, stderr, uncaught,
                   store, next_id, faults, last, calls, n_requests>>

\* lines 84-88, 96: the lookup of ensure_timeseries_exists
EnsureLookup ==
    /\ tool = "metrics" /\ pc = "lookup"
    /\ \E o \in Answers(ServerLookup(Name(i))) :
         LET r    == MakeRequest(o, <<"/timeseries_by_name/", Name(i)>>)
             on   == r.exc # NoExc /\ AfterLookup(r.exc) # "raise"
             rec  == [inv EXCEPT !.n_lookup = @ + 1,
                                 !.faulty = @ \/ o # ServerLookup(Name(i)),
                                 !.existed = Name(i) \in DOMAIN store,
                                 !.lookup = o, !.lookup_exc = r.exc,
                                 !.ensured = TimeseriesId(r.json),
                                 !.raised = IF on THEN NoExc ELSE EnsureRaises(r)]
             end  == EnsureEnds(r)
         IN  /\ faults' = IF o = ServerLookup(Name(i)) THEN faults ELSE faults + 1
             /\ last' = Sent(o, r.exc)
             /\ n_requests' = n_requests + 1
             /\ inv' = rec
             /\ IF on
                THEN /\ pc' = AfterLookup(r.exc)
                     /\ UNCHANGED <<i, results, result, timeseries_id, calls>>
                ELSE /\ pc' = end.pc /\ i' = end.i
                     /\ results' = end.results /\ result' = end.result
                     /\ timeseries_id' = TimeseriesId(r.json)
                     /\ calls' = LogCall(Name(i), rec)
    /\ UNCHANGED <<tool, run, test_results, args, env, metrics, api, deployment_data,
                   exit_code, stdout, stderr, uncaught, store, next_id, attempted>>

\* lines 89-95: the create call of ensure_timeseries_exists
EnsureCreate ==
    /\ tool = "metrics" /\ pc = "create"
    /\ \E o \in Answers(ServerCreate(Name(i))) :
         LET r    == MakeRequest(o, <<"/timeseries">>)
             rec  == [inv EXCEPT !.n_create = @ + 1,
                                 !.faulty = @ \/ o # ServerCreate(Name(i)),
                                 !.create_exc = r.exc,
                                 !.ensured = TimeseriesId(r.json),
                                 !.raised = EnsureRaises(r)]
             end  == EnsureEnds(r)
             made == o = ServerCreate(Name(i)) /\ o.status = 200
         IN  /\ faults' = IF o = ServerCreate(Name(i)) THEN faults ELSE faults + 1
             /\ store' = IF made THEN Put(store, Name(i), next_id) ELSE store
             /\ next_id' = IF made THEN next_id + 1 ELSE next_id
             /\ last' = Sent(o, r.exc)
             /\ n_requests' = n_requests + 1
             /\ inv' = rec
             /\ pc' = end.pc /\ i' = end.i
             /\ results' = end.results /\ result' = end.result
             /\ timeseries_id' = TimeseriesId(r.json)
             /\ calls' = LogCall(Name(i), rec)
    /\ UNCHANGED <<tool, run, test_results, args, env, metrics, api, deployment_data,
                   exit_code, stdout, stderr, uncaught, attempted>>

\* lines 112-125: the append call of add_datapoints
AppendDatapoints ==
    /\ tool = "metrics" /\ pc = "append"
    /\ \E o \in Answers(ServerAppend(timeseries_id)) :
         LET r   == MakeRequest(o, <<"/timeseries/", ToString(timeseries_id), "/datapoints">>)
             end == AddEnds(r.exc)
         IN  /\ faults' = IF o = ServerAppend(timeseries_id) THEN faults ELSE faults + 1
             /\ last' = Sent(o, r.exc)
             /\ n_requests' = n_requests + 1
             /\ inv' = [inv EXCEPT !.n_append = @ + 1, !.append_id = timeseries_id,
                                   !.raised = r.exc]
             /\ pc' = end.pc /\ i' = end.i
             /\ results' = end.results /\ result' = end.result
    /\ UNCHANGED <<tool, run, test_results, args, env, metrics, api, timeseries_id,
                   deployment_data, exit_code, stdout, stderr, uncaught, store, next_id,
                   calls, attempted>>

\* lines 217-223: the loop is over, send_test_metrics returns the results
ReturnResults ==
    /\ tool = "metrics" /\ pc = "loop" /\ i > Len(metrics)
    /\ result' = Success(results)
    /\ pc' = "returned"
    /\ UNCHANGED <<tool, run, test_results, args, env, metrics, api, i, results,
                   timeseries_id, deployment_data, exit_code, stdout, stderr, uncaught,
                   store, next_id, faults, inv, last, calls, n_requests, attempted>>

\* lines 254-261: main reports what send_test_metrics returned and exits
MetricsExit ==
    /\ tool = "metrics" /\ pc = "returned"
    /\ IF result.success
       THEN /\ stdout' = <<"Successfully sent test metrics for ">>
            /\ exit_code' = 0
            /\ stderr' = stderr
       ELSE /\ stderr' = <<"Error: ">> \o result.error
            /\ exit_code' = 1
            /\ stdout' = stdout
    /\ pc' = "exited"
    /\ UNCHANGED <<tool, run, test_results, args, env, metrics, api, i, results, result,
                   timeseries_id, deployment_data, uncaught, store, next_id, faults,
                   inv, last, calls, n_requests, attempted>>

\* lines 270-271: the script is run again, against the same remote store
Rerun ==
    /\ tool = "metrics" /\ pc = "exited" /\ run < MaxRuns
    /\ run' = run + 1
    /\ pc' = "start"
    /\ metrics' = <<>> /\ api' = None /\ i' = 1 /\ results' = <<>>
    /\ result' = NoResult /\ timeseries_id' = 0
    /\ exit_code' = -1 /\ stdout' = <<>> /\ stderr' = <<>>
    /\ inv' = FreshInv /\ last' = NoSend /\ n_requests' = 0 /\ attempted' = {}
    /\ UNCHANGED <<tool, test_results, args, env, deployment_data, uncaught, store,
                   next_id, faults, calls>>

----------------------------------------------------------------------------
(* The deployment tool *)

DeployUrl == <<"https://api.plandek.com/deployments/v1", "/deployment">>

AuthFailedToken == <<"Authentication failed. Please check your API token.">>

\* PlandekDeploymentAPI.__init__: the client, or the ValueError for a missing token
DeploymentAPIInit(api_token, env_token) ==
    LET t == Or(api_token, env_token) IN
    IF ~Truthy(t)
    THEN [exc |-> Exc("ValueError", <<"Plandek API token is required. ",
                       "Set PLANDEK_API_TOKEN environment variable or pass it as an argument.">>),
          api_token |-> t]
    ELSE [exc |-> NoExc, api_token |-> t]

\* send_deployment, given the answer o that requests.post got: the exception that
\* leaves it (NoExc: it returns the parsed body)
SendDeploymentRaises(o) ==
    IF o.kind = "transport" THEN Exc(o.reason, o.text)
    ELSE IF o.status = 401 THEN Exc("Exception", AuthFailedToken)
    ELSE IF RaisesForStatus(o.status) THEN Exc("HTTPError", HTTPErrorMsg(o, DeployUrl))
    ELSE IF o.body.fmt # "json" THEN Exc("JSONDecodeError", <<"Expecting value">>)
    ELSE NoExc

RECURSIVE Split(_, _)
\* s.split(sep), for s a text whose fragments are separators and separator-free pieces
Split(s, sep) ==
    IF s = <<>> THEN <<"">>
    ELSE IF Head(s) = sep THEN <<"">> \o Split(Tail(s), sep)
    ELSE LET rest == Split(Tail(s), sep)
         IN  IF Len(s) = 1 \/ s[2] = sep THEN <<Head(s)>> \o Tail(rest)
             ELSE <<Head(s) \o Head(rest)>> \o Tail(rest)

\* an optional body field: there when the flag's value is truthy
Opt(k, v) == IF Truthy(v) THEN k :> v ELSE <<>>

\* faulty variant of ProdField: the field is attached when --is-prod was given
ProdFieldWhenSet(a) == IF a.is_prod THEN "is_prod_environment" :> a.is_prod ELSE <<>>

\* the is_prod_environment field, attached together with environment_name
ProdField(a) == IF Truthy(a.environment) THEN "is_prod_environment" :> a.is_prod ELSE <<>>

\* lines 64-86: the request body main builds from the parsed flags
DeploymentData(a) ==
    [client_key |-> a.client_key, pipeline |-> a.pipeline, build |-> a.build,
     status |-> a.status, commits |-> Split(a.commits, ","),
     calculate_commits_in_build |-> FALSE, deployed_at |-> "utcnow"]
    @@ Opt("branch_name", a.branch_name)
    @@ Opt("environment_name", a.environment)
    @@ ProdField(a)
    @@ Opt("application_or_service_name", a.service_name)
    @@ Opt("application_or_service_release_id", a.release_id)
    @@ Opt("context", a.context)

\* POST /deployment
ServerDeployment == Http(200, "OK", JsonBody(<<"accepted">>, 0))

\* line 62: construct the client, outside main's try
DeployInitClient ==
    /\ tool = "deploy" /\ pc = "start"
    /\ LET c == DeploymentAPIInit(args.api_token, env) IN
         IF c.exc = NoExc
         THEN /\ api' = c.api_token
              /\ pc' = "build"
              /\ UNCHANGED <<uncaught, exit_code, stderr>>
         ELSE /\ uncaught' = TRUE
              /\ exit_code' = 1
              /\ stderr' = <<"Traceback (most recent call last):", "ValueError: ">> \o c.exc.msg
              /\ pc' = "exited"
              /\ api' = api
    /\ UNCHANGED <<tool, run, test_results, args, env, metrics, i, results, result,
                   timeseries_id, deployment_data, stdout, store, next_id, faults, inv,
                   last, calls, n_requests, attempted>>

\* lines 64-86: build the request body
BuildDeploymentData ==
    /\ tool = "deploy" /\ pc = "build"
    /\ deployment_data' = DeploymentData(args)
    /\ pc' = "send"
    /\ UNCHANGED <<tool, run, test_results, args, env, metrics, api, i, results, result,
                   timeseries_id, exit_code, stdout, stderr, uncaught, store, next_id,
                   faults, inv, last, calls, n_requests, attempted>>

\* lines 88-94: send the body, report and exit
SendDeployment ==
    /\ tool = "deploy" /\ pc = "send"
    /\ \E o \in Answers(ServerDeployment) :
         LET e == SendDeploymentRaises(o) IN
         /\ faults' = IF o = ServerDeployment THEN faults ELSE faults + 1
         /\ last' = Sent(o, e)
         /\ n_requests' = n_requests + 1
         /\ IF e = NoExc
            THEN /\ stdout' = <<"json.dumps: ">> \o o.body.message
                 /\ exit_code' = 0
                 /\ stderr' = stderr
            ELSE /\ stderr' = <<"Error: ">> \o e.msg
                 /\ exit_code' = 1
                 /\ stdout' = stdout
    /\ pc' = "exited"
    /\ UNCHANGED <<tool, run, test_results, args, env, metrics, api, i, results, result,
                   timeseries_id, deployment_data, uncaught, store, next_id, inv, calls,
                   attempted>>

----------------------------------------------------------------------------
(* Inputs and the specification *)

Names == {MetricNames[k] : k \in 1..NumDatapoints}

OptionalValues == {None, "", "given"}

\* JSON objects with any of the keys tests and passed, counts in 0..MaxCount
GridReports ==
    UNION { [keys -> 0..MaxCount] : keys \in SUBSET {"tests", "passed"} }

\* a full report: ten tests, eight passed
SpecReport == [tests |-> 10, passed |-> 8, failed |-> 2, skipped |-> 0, duration |-> 5]

Object(d) == [kind |-> "object", data |-> d]

Malformed == { [kind |-> "invalid", data |-> <<>>], [kind |-> "array", data |-> <<>>] }

MetricsArgs == [api_key : {None, "", "key-arg"}]

DeployArgs ==
    [client_key : {"client"}, pipeline : {"pipe"}, build : {"42"},
     status : {"success", "failure"}, commits : {<<"abc", ",", "def">>},
     branch_name : OptionalValues, environment : OptionalValues, is_prod : BOOLEAN,
     service_name : OptionalValues, release_id : OptionalValues,
     context : OptionalValues, api_token : {None, "", "token-arg"}]

\* what every process starts with, whatever its inputs
Fresh ==
    /\ pc = "start" /\ run = 1
    /\ metrics = <<>> /\ api = None /\ i = 1 /\ results = <<>> /\ result = NoResult
    /\ timeseries_id = 0 /\ deployment_data = <<>>
    /\ exit_code = -1 /\ stdout = <<>> /\ stderr = <<>> /\ uncaught = FALSE
    /\ next_id = 1 /\ faults = 0
    /\ inv = FreshInv /\ last = NoSend /\ calls = [n \in Names |-> <<>>]
    /\ n_requests = 0 /\ attempted = {}

InitMetrics(reports) ==
    /\ tool = "metrics"
    /\ test_results \in reports
    /\ args \in MetricsArgs
    /\ env \in {None, "key-env"}
    /\ store = <<>>

InitDeploy ==
    /\ tool = "deploy"
    /\ test_results = [kind |-> "invalid", data |-> <<>>]
    /\ args \in DeployArgs
    /\ env \in {None, "token-env"}
    /\ store = <<>>

Init ==
    /\ Fresh
    /\ \/ InitMetrics({Object(SpecReport)} \cup Malformed)
       \/ InitDeploy

Next ==
    \/ ParseTestResults
    \/ InitClient
    \/ AddDatapoints
    \/ EnsureLookup
    \/ EnsureCreate
    \/ AppendDatapoints
    \/ ReturnResults
    \/ MetricsExit
    \/ Rerun
    \/ DeployInitClient
    \/ BuildDeploymentData
    \/ SendDeployment

Spec == Init /\ [][Next]_vars

\* parse_test_results alone, over every generated report
InitParse == Fresh /\ InitMetrics({Object(d) : d \in GridReports \cup {SpecReport}} \cup Malformed)

SpecParse == InitParse /\ [][ParseTestResults]_vars

----------------------------------------------------------------------------
(* Properties *)

Is401(o) == o.kind = "http" /\ o.status = 401

\* the failure a 401 answer is raised as, in the tool that runs
AuthExc ==
    IF tool = "metrics" THEN Exc("TimeseriesAPIError", AuthFailedKey)
    ELSE Exc("Exception", AuthFailedToken)

\* C1: within one add_datapoints invocation the append request is issued only after
\* ensure_timeseries_exists has returned an id (by the lookup, or by the create call
\* after a failed lookup), the id in the append path is that id, and no append is
\* issued when the lookup and the create call both failed.
AppendAfterEnsure ==
    tool = "metrics" =>
        /\ (pc = "append" \/ inv.n_append > 0) =>
              /\ inv.ensured # 0
              /\ timeseries_id = inv.ensured
              /\ \/ inv.lookup_exc = NoExc /\ inv.n_create = 0
                 \/ inv.lookup_exc # NoExc /\ inv.n_create = 1 /\ inv.create_exc = NoExc
        /\ inv.n_append > 0 => inv.append_id = inv.ensured
        /\ (inv.lookup_exc # NoExc /\ inv.create_exc # NoExc) => inv.n_append = 0

\* C1 witness: an append was issued to the id a create call had just returned
AppendedAfterCreate ==
    /\ tool = "metrics" /\ inv.n_append = 1 /\ inv.n_create = 1
    /\ inv.ensured # 0 /\ inv.append_id = inv.ensured

\* C2: ensure_timeseries_exists issues the create call if and only if the lookup
\* was answered 404; after any other failed lookup nothing is created and the
\* lookup's error leaves the call unchanged.
CreateIffLookup404 ==
    (tool = "metrics" /\ inv.n_lookup > 0) =>
        LET notFound == inv.lookup.kind = "http" /\ inv.lookup.status = 404
            creates  == pc = "create" \/ inv.n_create > 0
        IN  /\ creates <=> notFound
            /\ (inv.lookup_exc # NoExc /\ ~notFound) => inv.raised = inv.lookup_exc

\* C3: of two consecutive calls of ensure_timeseries_exists on one name, both
\* answered by a store that keeps timeseries by name, the name not existing before
\* the first: the first issues one create call, the second none, and both return
\* the same id.
SecondEnsureFinds ==
    \A n \in Names : \A k \in 1..(Len(calls[n]) - 1) :
        LET a == calls[n][k]
            b == calls[n][k + 1]
        IN  (~a.existed /\ ~a.faulty /\ ~b.faulty) =>
                /\ a.creates = 1 /\ b.creates = 0
                /\ a.ret # 0 /\ b.ret = a.ret

\* C3 witness: a name was ensured twice by undisturbed calls, the first time absent
EnsuredTwice ==
    \E n \in Names :
        /\ Len(calls[n]) = 2
        /\ ~calls[n][1].existed /\ ~calls[n][1].faulty /\ ~calls[n][2].faulty
        /\ calls[n][1].creates = 1 /\ calls[n][2].ret = calls[n][1].ret

\* C4: a 401 answer to any request is raised as the authentication failure, no
\* other failed send is raised as that failure, the request is sent once, and the
\* failure reaches the caller: the results entry of the datapoint in the metrics
\* tool, the error line and exit code in the deployment tool.
AuthFailureDistinct ==
    last.sent > 0 =>
        /\ last.sent = 1
        /\ Is401(last.outcome) <=> last.raised = AuthExc
        /\ (tool = "metrics" /\ Is401(last.outcome) /\ inv.n_lookup > 0) =>
              /\ inv.raised = AuthExc
              /\ Is401(inv.lookup) => (inv.n_lookup = 1 /\ inv.n_create = 0 /\ inv.n_append = 0)
              /\ pc \in {"loop", "returned", "exited"}
              /\ results[Name(i - 1)] = <<"error: ">> \o AuthFailedKey
        /\ (tool = "deploy" /\ Is401(last.outcome)) =>
              /\ exit_code = 1
              /\ stderr = <<"Error: ">> \o AuthFailedToken

\* C4 witness: a request of the metrics tool was answered 401 and add_datapoints
\* raised the authentication failure
AuthFailureRaised ==
    /\ tool = "metrics" /\ Is401(last.outcome)
    /\ last.raised = AuthExc /\ inv.raised = AuthExc

\* C5: once parsing and client construction have succeeded, every datapoint's send
\* is attempted, the results map has an entry for every datapoint name, the success
\* flag is true and the exit code is 0, whatever sends failed.
BatchNeverAborts ==
    (tool = "metrics" /\ exit_code # -1 /\ api # None) =>
        /\ attempted = 1..NumDatapoints
        /\ DOMAIN result.results = Names
        /\ result.success
        /\ exit_code = 0

\* C6: no request is sent again: an add_datapoints invocation issues at most one
\* lookup, one create call and one append, so a run of the metrics tool issues at
\* most three requests per datapoint attempted, and the deployment tool one.
NoRequestResent ==
    /\ inv.n_lookup <= 1 /\ inv.n_create <= 1 /\ inv.n_append <= 1
    /\ last.sent <= 1
    /\ tool = "metrics" => n_requests <= 3 * Cardinality(attempted)
    /\ tool = "deploy" => n_requests <= 1

\* C6 witness: a lookup failed and add_datapoints ended having sent that one request
FailedLookupSentOnce ==
    /\ tool = "metrics" /\ pc = "loop"
    /\ inv.lookup_exc # NoExc /\ inv.raised = inv.lookup_exc
    /\ inv.n_lookup = 1 /\ inv.n_create = 0 /\ inv.n_append = 0

\* C7: in both tools a process that met an error has caught it in main, printed it
\* to standard error after the prefix "Error: " and exited with code 1; a process
\* exits with code 0 only when no error occurred; no error leaves main uncaught.
ErrorsCaughtExitOne ==
    exit_code # -1 =>
        LET failed ==
                IF tool = "deploy" THEN uncaught \/ last.raised # NoExc
                ELSE \/ ~result.success
                     \/ \E n \in DOMAIN result.results : result.results[n] # <<"success">>
        IN  /\ ~uncaught
            /\ failed => (exit_code = 1 /\ stderr # <<>> /\ Head(stderr) = "Error: ")
            /\ exit_code = 0 => ~failed

OptionalFields ==
    [branch_name |-> "branch_name", environment |-> "environment_name",
     service_name |-> "application_or_service_name",
     release_id |-> "application_or_service_release_id", context |-> "context"]

BodyBuilt == tool = "deploy" /\ (pc = "send" \/ (pc = "exited" /\ ~uncaught))

\* C8 as stated: every optional field of the body is present exactly when its own
\* flag was given on the command line, is_prod_environment when --is-prod was.
OptionalIffFlagGiven ==
    BodyBuilt =>
        /\ \A f \in DOMAIN OptionalFields :
              OptionalFields[f] \in DOMAIN deployment_data <=> args[f] # None
        /\ "is_prod_environment" \in DOMAIN deployment_data <=> args.is_prod

\* C8, amended: each optional text field is present exactly when its flag was given
\* a non-empty value, and then carries that value; is_prod_environment is present
\* exactly when --environment was given a non-empty value and is true exactly when
\* --is-prod was given (so --environment without --is-prod yields false).
OptionalIffNonEmpty ==
    BodyBuilt =>
        /\ \A f \in DOMAIN OptionalFields :
              /\ OptionalFields[f] \in DOMAIN deployment_data <=> Truthy(args[f])
              /\ Truthy(args[f]) => deployment_data[OptionalFields[f]] = args[f]
        /\ "is_prod_environment" \in DOMAIN deployment_data <=> Truthy(args.environment)
        /\ Truthy(args.environment) => deployment_data["is_prod_environment"] = args.is_prod

\* C8 witness: --environment without --is-prod, and the body says false
EnvironmentWithoutIsProd ==
    /\ BodyBuilt /\ Truthy(args.environment) /\ ~args.is_prod
    /\ "is_prod_environment" \in DOMAIN deployment_data
    /\ deployment_data["is_prod_environment"] = FALSE

\* the float that is exactly the natural n > 0
Exact(n) ==
    PyFloat(Bits(n) \o [j \in 1..(Precision - Len(Bits(n))) |-> 0], Len(Bits(n)) - Precision)

\* x * 2^k on binary numerals
ShiftLeft(x, k) == IF x = <<>> THEN <<>> ELSE x \o [j \in 1..k |-> 0]

\* x <= y on binary numerals without leading zeros
Leq(x, y) ==
    \/ Len(x) < Len(y)
    \/ /\ Len(x) = Len(y)
       /\ \/ x = y
          \/ \E j \in 1..Len(x) : x[j] < y[j] /\ \A k \in 1..(j - 1) : x[k] = y[k]

\* |x - y| on numerals of at most 80 bits
Distance(x, y) ==
    LET big   == IF Leq(y, x) THEN x ELSE y
        small == IF Leq(y, x) THEN y ELSE x
        d1 == LimbOf(big, 1) - LimbOf(small, 1)
        d2 == LimbOf(big, 2) - LimbOf(small, 2) - (IF d1 < 0 THEN 1 ELSE 0)
        d3 == LimbOf(big, 3) - LimbOf(small, 3) - (IF d2 < 0 THEN 1 ELSE 0)
        d4 == LimbOf(big, 4) - LimbOf(small, 4) - (IF d3 < 0 THEN 1 ELSE 0)
        pos(d) == IF d < 0 THEN d + Limb ELSE d
    IN  FromLimbs(pos(d4), pos(d3), pos(d2), pos(d1))

\* the float v (with v.e <= 0) is within a relative error of 2^-51 of p / t:
\* |m * 2^e * t - p| * 2^51 <= p, both sides scaled by 2^-e
Near(v, p, t) ==
    LET scaled == ShiftLeft(Bits(p), 0 - v.e)
    IN  /\ v.type = "float" /\ v.e <= 0
        /\ Len(v.m) = (IF p = 0 THEN 0 ELSE Precision)
        /\ Leq(ShiftLeft(Distance(MulSmall(v.m, t), scaled), 51), scaled)

ReportParsed == tool = "metrics" /\ test_results.kind = "object" /\ pc # "start"

Tests == IF "tests" \in DOMAIN test_results.data THEN test_results.data["tests"] ELSE 0

Passed == IF "passed" \in DOMAIN test_results.data THEN test_results.data["passed"] ELSE 0

SuccessRateDerived ==
    ReportParsed =>
        /\ pc = "init_client" /\ ~result.returned
        /\ metrics[5].name = "tests.success_rate"
        /\ IF Tests > 0 THEN Near(metrics[5].value, Passed * 100, Tests)
           ELSE metrics[5].value = PyInt(0)
        /\ (Tests = 10 /\ Passed = 8) => metrics[5].value = Exact(80)

\* the report with ten tests, eight passed, was parsed to a rate of 80
EightOfTenIsEighty ==
    /\ pc = "init_client" /\ test_results = Object(SpecReport)
    /\ metrics[5].value = Exact(80)

BadInput == test_results.kind # "object" \/ ~Truthy(Or(args.api_key, env))

\* C10: when the report does not parse or no API key is given, the metrics tool
\* issues no HTTP request, and it ends with the success flag false and exit code 1.
ValidationBeforeNetwork ==
    (tool = "metrics" /\ BadInput) =>
        /\ n_requests = 0 /\ attempted = {}
        /\ exit_code # -1 => (result.returned /\ ~result.success /\ exit_code = 1)
        /\ pc \in {"start", "init_client", "returned", "exited"}

\* C10 witness: a run with a well-formed report and no key has exited with code 1
\* and no request
NoKeyNoRequest ==
    /\ tool = "metrics" /\ pc = "exited" /\ test_results.kind = "object"
    /\ ~Truthy(Or(args.api_key, env))
    /\ exit_code = 1 /\ n_requests = 0

====
